---- MODULE Spec2Model ----
(***************************************************************************)
(* Token lifecycle (TokenManager, OAuth2Manager) and resilient request     *)
(* execution (HttpClient.request over retryWithBackoff) of the Xibo CMS    *)
(* SDK.  Times are in milliseconds, token lifetimes in seconds, as in the  *)
(* source.                                                                 *)
(*                                                                         *)
(* The client is configured for the client_credentials grant.  A call of   *)
(* an OAuth2Manager method is one step: every Date.now() inside it reads   *)
(* the same clock value.  A request is a sequence of steps: fn() invoked   *)
(* (token obtained, request handed to axios), the transport settling, the  *)
(* backoff sleep ending.  The clock advances between steps, not bound to   *)
(* the sleeps.  Fractions of a millisecond in a jittered delay are dropped.*)
(* An error thrown by the request interceptor reaches the rejected handler *)
(* of the response interceptor, as axios chains its interceptors.          *)
(***************************************************************************)
EXTENDS Integers, Sequences, FiniteSets, TLC

VARIABLES
    xiboConfig,     \* XiboConfig given to the XiboClient constructor
    now,            \* Date.now()
    cachedToken,    \* TokenManager.cachedToken
    storage,        \* MemoryTokenStorage entry under TokenManager.storageKey
    authCall,       \* the OAuth2Manager call made by the last step, if any
    pc,             \* position of the request inside retryWithBackoff
    config,         \* retryWithBackoff: merged RetryOptions of the request
    attempt,        \* retryWithBackoff: loop variable
    attempts,       \* number of times fn() has been invoked for the request
    sleepCount,     \* number of sleep() calls made for the request
    delay,          \* duration of the sleep() in progress
    outcome,        \* what the transport returned for the latest attempt
    lastError,      \* retryWithBackoff: lastError
    result,         \* what HttpClient.request resolved or rejected with
    aborted,        \* context.signal.aborted
    bearer,         \* Authorization header value of the latest attempt
    retryAttempts,  \* context.retryAttempts of the request
    backoff,        \* calculateDelay called on its own: options, attempt, result
    tasks,          \* concurrent calls on one OAuth2Manager / TokenManager
    lastPut,        \* the token written by the latest storeToken among them
    iterator,       \* PaginatedIterator: currentPage, hasMorePages
    fetches,        \* the fetchPage calls the iterator has made
    returned        \* what the latest call of next() or all() returned or threw

vars == <<xiboConfig, now, cachedToken, storage, authCall, pc, config, attempt,
          attempts, sleepCount, delay, outcome, lastError, result, aborted, bearer,
          retryAttempts, backoff, tasks, lastPut, iterator, fetches, returned>>

\* state of the utilities and of the concurrent callers
auxVars == <<backoff, tasks, lastPut, iterator, fetches, returned>>

authVars == <<cachedToken, storage>>
reqVars == <<pc, config, attempt, attempts, sleepCount, delay, outcome,
             lastError, result, aborted, bearer, retryAttempts>>

-----------------------------------------------------------------------------
(* JavaScript values.  A number slot holds an integer, UndefinedNum or NaN; *)
(* a string slot holds a tuple of characters or UndefinedStr; an atom such  *)
(* as an access token is a TLA+ string or Undefined.                       *)

Undefined == "undefined"
UndefinedStr == <<"undefined">>
UndefinedNum == 0 - 1000001
NaN == 0 - 1000002

\* JavaScript truthiness of a number slot
TruthyNum(v) == v # UndefinedNum /\ v # NaN /\ v # 0

\* JavaScript truthiness of a string slot
TruthyStr(s) == s # UndefinedStr /\ s # <<>>

\* JavaScript truthiness of an atom
TruthyAtom(a) == a # Undefined /\ a # ""

\* a ?? b, for number slots (NaN and 0 are kept)
Coalesce(a, b) == IF a = UndefinedNum THEN b ELSE a

\* a || b, for number slots
OrNum(a, b) == IF TruthyNum(a) THEN a ELSE b

DigitChars == <<"0", "1", "2", "3", "4", "5", "6", "7", "8", "9">>

IsDigit(c) == \E i \in 1..10 : DigitChars[i] = c

DigitValue(c) == (CHOOSE i \in 1..10 : DigitChars[i] = c) - 1

\* value of the leading run of digits of s, continuing from acc
RECURSIVE ParseDigits(_, _)
ParseDigits(s, acc) ==
    IF s = <<>> \/ ~IsDigit(Head(s)) THEN acc
    ELSE ParseDigits(Tail(s), acc * 10 + DigitValue(Head(s)))

\* parseInt(s, 10) of a string without sign or leading blanks
ParseInt(s) == IF s = <<>> \/ ~IsDigit(Head(s)) THEN NaN ELSE ParseDigits(s, 0)

\* Number.prototype.toString() of a non-negative integer
RECURSIVE NumToString(_)
NumToString(n) ==
    IF n < 10 THEN <<DigitChars[n + 1]>>
    ELSE NumToString(n \div 10) \o <<DigitChars[(n % 10) + 1]>>

\* base^e for e >= 0 (Math.pow on the integers the model uses)
RECURSIVE Pow(_, _)
Pow(base, e) == IF e <= 0 THEN 1 ELSE base * Pow(base, e - 1)

Min(a, b) == IF a <= b THEN a ELSE b
Max(a, b) == IF a >= b THEN a ELSE b

-----------------------------------------------------------------------------
(* Bounds of the model *)

\* the clock advances in steps of the validity buffer, MaxTicks times
MaxTicks == 2
\* Math.random() is drawn from { k / RandomSteps : k \in 0..RandomSteps-1 }
RandomSteps == 4
\* largest per-request retryAttempts override a caller passes
MaxRetryOverride == 3
\* largest attempt number calculateDelay is called with on its own
MaxAttemptNo == 5
\* number of calls in progress at once on one OAuth2Manager
NumTasks == 2

-----------------------------------------------------------------------------
(* Errors (errors/XiboError.ts, AuthenticationError.ts, RateLimitError.ts) *)

\* new XiboError(message, code, status, details)
XiboError(code, status) ==
    [name |-> "XiboError", code |-> code, status |-> status]

AuthenticationError ==
    [name |-> "AuthenticationError", code |-> <<"AUTHENTICATION_ERROR">>, status |-> 401]

AuthorizationError ==
    [name |-> "AuthorizationError", code |-> <<"AUTHORIZATION_ERROR">>, status |-> 403]

NotFoundError ==
    [name |-> "NotFoundError", code |-> <<"NOT_FOUND_ERROR">>, status |-> 404]

ValidationError ==
    [name |-> "ValidationError", code |-> <<"VALIDATION_ERROR">>, status |-> 400]

ServerError(status) ==
    [name |-> "ServerError", code |-> <<"SERVER_ERROR">>, status |-> status]

RateLimitError(retryAfter, remaining, reset) ==
    [name |-> "RateLimitError", code |-> <<"RATE_LIMIT_ERROR">>, status |-> 429,
     retryAfter |-> retryAfter, remaining |-> remaining, reset |-> reset]

\* the value of a variable that holds undefined where an error may be held
NoError == [name |-> "undefined"]

\* String.prototype.toLowerCase() on the header names the transport uses
ToLowerCase(k) ==
    CASE k = "Retry-After" -> "retry-after"
      [] k = "X-RateLimit-Remaining" -> "x-ratelimit-remaining"
      [] k = "X-RateLimit-Reset" -> "x-ratelimit-reset"
      [] OTHER -> k

\* HttpClient.normalizeHeaders: headers is a set of <<name, value>> pairs
normalizeHeaders(headers) == { <<ToLowerCase(h[1]), h[2]>> : h \in headers }

\* headers[key] on a normalized header object
HeaderGet(headers, key) ==
    IF \E h \in headers : h[1] = key
    THEN (CHOOSE h \in headers : h[1] = key)[2]
    ELSE UndefinedStr

\* fromHeaders with a missing header read as 0
fromHeaders_ZeroDefaults(headers) ==
    LET ra == HeaderGet(headers, "retry-after")
        rem == HeaderGet(headers, "x-ratelimit-remaining")
        rst == HeaderGet(headers, "x-ratelimit-reset")
    IN RateLimitError(IF TruthyStr(ra) THEN ParseInt(ra) ELSE 0,
                      IF TruthyStr(rem) THEN ParseInt(rem) ELSE 0,
                      IF TruthyStr(rst) THEN ParseInt(rst) ELSE 0)

\* RateLimitError.fromHeaders
fromHeaders(headers) ==
    LET ra == HeaderGet(headers, "retry-after")
        rem == HeaderGet(headers, "x-ratelimit-remaining")
        rst == HeaderGet(headers, "x-ratelimit-reset")
    IN RateLimitError(IF TruthyStr(ra) THEN ParseInt(ra) ELSE UndefinedNum,
                      IF TruthyStr(rem) THEN ParseInt(rem) ELSE UndefinedNum,
                      IF TruthyStr(rst) THEN ParseInt(rst) ELSE UndefinedNum)

\* getRetryDelay with the default left in seconds
getRetryDelay_DefaultInSeconds(error) ==
    IF TruthyNum(error.retryAfter) THEN error.retryAfter * 1000 ELSE 60

\* RateLimitError.getRetryDelay
getRetryDelay(error) ==
    IF TruthyNum(error.retryAfter) THEN error.retryAfter * 1000 ELSE 60000

\* HttpClient.handleResponseError: error is the AxiosError
\* [status (UndefinedNum when there is no response), headers, code]
handleResponseError(error) ==
    LET status == OrNum(error.status, 0)
    IN CASE status = 401 -> AuthenticationError
         [] status = 403 -> AuthorizationError
         [] status = 404 -> NotFoundError
         [] status = 400 \/ status = 422 -> ValidationError
         [] status = 429 -> fromHeaders(normalizeHeaders(error.headers))
         [] OTHER -> IF status >= 500 THEN ServerError(status)
                     ELSE XiboError(NumToString(status), status)

-----------------------------------------------------------------------------
(* utils/retry.ts *)

DEFAULT_RETRY_OPTIONS ==
    [maxAttempts |-> 3, initialDelay |-> 1000, maxDelay |-> 30000,
     backoffMultiplier |-> 2, jitter |-> TRUE]

NetworkCodes == {"ECONNRESET", "ENOTFOUND", "ECONNREFUSED", "ETIMEDOUT"}

\* isRetryableError with every 4xx and 5xx status taken as transient
isRetryableError_AnyErrorStatus(error) ==
    IF error.name = "RateLimitError" THEN TRUE
    ELSE IF error.name # "undefined" /\ "status" \in DOMAIN error
         THEN error.status >= 400
    ELSE FALSE

\* isRetryableError
isRetryableError(error) ==
    IF error.name = "RateLimitError" THEN TRUE
    ELSE IF error.name # "undefined" /\ "status" \in DOMAIN error
         THEN error.status >= 500 \/ error.status = 408 \/ error.status = 429
    ELSE IF error.name # "undefined" /\ "code" \in DOMAIN error
         THEN error.code \in { <<c>> : c \in NetworkCodes }
    ELSE FALSE

\* calculateDelay without the final Math.max(delay, 0)
calculateDelay_Unclamped(attemptNo, options, random) ==
    LET base == Min(options.initialDelay * Pow(options.backoffMultiplier, attemptNo - 1),
                    options.maxDelay)
    IN IF options.jitter
       THEN base + (((2 * random - RandomSteps) * base) \div (4 * RandomSteps))
       ELSE base

\* calculateDelay; random is k where Math.random() returned k / RandomSteps
calculateDelay(attemptNo, options, random) ==
    LET base == Min(options.initialDelay * Pow(options.backoffMultiplier, attemptNo - 1),
                    options.maxDelay)
        jittered == IF options.jitter
                    THEN base + (((2 * random - RandomSteps) * base) \div (4 * RandomSteps))
                    ELSE base
    IN Max(jittered, 0)

-----------------------------------------------------------------------------
(* auth/TokenManager.ts *)

\* TokenManager.cachedToken === null
NullToken == [name |-> "null"]
\* a null string
Null == "null"
NullStr == <<"null">>

\* JSON.stringify(cachedToken): the text of the object, as its list of tokens
JSONstringify(token) ==
    <<"{", token.access_token, token.token_type, token.expires_in,
      token.obtained_at, token.expires_at, "}">>

\* JSON.parse(text): the object, or a SyntaxError
JSONparse(text) ==
    IF Len(text) = 7 /\ text[1] = "{" /\ text[7] = "}"
    THEN [name |-> "CachedToken", access_token |-> text[2], token_type |-> text[3],
          expires_in |-> text[4], obtained_at |-> text[5], expires_at |-> text[6]]
    ELSE [name |-> "SyntaxError"]

\* MemoryTokenStorage.get
storageGet(store) == IF TruthyStr(store) THEN store ELSE NullStr

\* isTokenValid without the 5 minute buffer
isTokenValid_NoBuffer(token, t) == token.expires_at > t

\* TokenManager.isTokenValid
isTokenValid(token, t) == token.expires_at > t + (5 * 60 * 1000)

\* needsRefresh true only for a token that is still valid
needsRefresh_OnlyWhileValid(token, t) ==
    token.expires_at <= t + (10 * 60 * 1000) /\ token.expires_at > t + (5 * 60 * 1000)

\* TokenManager.needsRefresh
needsRefresh(token, t) == token.expires_at <= t + (10 * 60 * 1000)

\* clearToken that leaves the stored entry in place
clearToken_MemoryOnly(tm) == [tm EXCEPT !.cachedToken = NullToken]

\* TokenManager.clearToken
clearToken(tm) == [cachedToken |-> NullToken, storage |-> UndefinedStr]

\* storeToken adding the lifetime to the clock without converting it to ms
storeToken_LifetimeInMs(tm, tokenResponse, t) ==
    LET ct == [name |-> "CachedToken",
               access_token |-> tokenResponse.access_token,
               token_type |-> tokenResponse.token_type,
               expires_in |-> tokenResponse.expires_in,
               obtained_at |-> t,
               expires_at |-> t + tokenResponse.expires_in]
    IN [cachedToken |-> ct, storage |-> JSONstringify(ct)]

\* storeToken that does not write the token to the store
storeToken_MemoryOnly(tm, tokenResponse, t) ==
    [tm EXCEPT !.cachedToken =
        [name |-> "CachedToken",
         access_token |-> tokenResponse.access_token,
         token_type |-> tokenResponse.token_type,
         expires_in |-> tokenResponse.expires_in,
         obtained_at |-> t,
         expires_at |-> t + (tokenResponse.expires_in * 1000)]]

\* TokenManager.storeToken at Date.now() = t
storeToken(tm, tokenResponse, t) ==
    LET ct == [name |-> "CachedToken",
               access_token |-> tokenResponse.access_token,
               token_type |-> tokenResponse.token_type,
               expires_in |-> tokenResponse.expires_in,
               obtained_at |-> t,
               expires_at |-> t + (tokenResponse.expires_in * 1000)]
    IN [cachedToken |-> ct, storage |-> JSONstringify(ct)]

\* what awaiting TokenStorage.get gives when the store rejects the read
ReadFailure == <<"rejected">>

\* getTokenLoaded that leaves an expired or unreadable entry where it is
getTokenLoaded_KeepsEntry(tm, t, storedToken) ==
    IF storedToken = NullStr \/ storedToken = ReadFailure
    THEN [tm |-> tm, token |-> NullToken]
    ELSE LET parsedToken == JSONparse(storedToken)
         IN IF parsedToken.name # "SyntaxError" /\ isTokenValid(parsedToken, t)
            THEN [tm |-> [tm EXCEPT !.cachedToken = parsedToken], token |-> parsedToken]
            ELSE [tm |-> tm, token |-> NullToken]

\* TokenManager.getToken from the point where await this.storage.get(...) has
\* settled with storedToken: the manager afterwards and the value returned
getTokenLoaded(tm, t, storedToken) ==
    IF storedToken = NullStr THEN [tm |-> tm, token |-> NullToken]
    ELSE IF storedToken = ReadFailure THEN [tm |-> clearToken(tm), token |-> NullToken]
    ELSE LET parsedToken == JSONparse(storedToken)
         IN IF parsedToken.name = "SyntaxError"
            THEN [tm |-> clearToken(tm), token |-> NullToken]
            ELSE IF isTokenValid(parsedToken, t)
            THEN [tm |-> [tm EXCEPT !.cachedToken = parsedToken],
                  token |-> parsedToken]
            ELSE [tm |-> clearToken(tm), token |-> NullToken]

\* TokenManager.getToken at Date.now() = t, with a store whose get rejects when
\* rejects is TRUE: the manager afterwards and the value returned
getTokenReading(tm, t, rejects) ==
    IF tm.cachedToken # NullToken /\ isTokenValid(tm.cachedToken, t)
    THEN [tm |-> tm, token |-> tm.cachedToken]
    ELSE getTokenLoaded(tm, t, IF rejects THEN ReadFailure ELSE storageGet(tm.storage))

\* TokenManager.getToken at Date.now() = t with a store that answers
getToken(tm, t) == getTokenReading(tm, t, FALSE)

\* TokenManager.getAccessToken
TokenManager_getAccessToken(tm, t) ==
    LET g == getToken(tm, t)
    IN [tm |-> g.tm,
        value |-> IF g.token # NullToken /\ TruthyAtom(g.token.access_token)
                  THEN g.token.access_token ELSE Null]

\* TokenManager.getTokenInfo
getTokenInfo(tm, t) ==
    LET g == getToken(tm, t)
    IN IF g.token = NullToken
       THEN [tm |-> g.tm, hasToken |-> FALSE, isValid |-> FALSE, needsRefresh |-> TRUE]
       ELSE [tm |-> g.tm, hasToken |-> TRUE, isValid |-> isTokenValid(g.token, t),
             needsRefresh |-> needsRefresh(g.token, t)]

-----------------------------------------------------------------------------
(* auth/OAuth2Manager.ts.  provider is what the token endpoint does when    *)
(* it is called: [ok, access_token, token_type, expires_in]; ok is FALSE   *)
(* when the call fails, and the other fields are as the server sent them.  *)

\* OAuth2Manager.obtainClientCredentialsToken on a successful provider call
obtainClientCredentialsToken(provider) ==
    [access_token |-> provider.access_token,
     token_type |-> IF TruthyAtom(provider.token_type) THEN provider.token_type
                    ELSE "Bearer",
     expires_in |-> OrNum(provider.expires_in, 3600)]

\* Results of the OAuth2Manager calls are [tm, ret, error, calls, branch]: the
\* TokenManager afterwards, the value returned, the error thrown (NoError if
\* none), the number of token endpoint calls made, and the branch taken.

\* obtainAndStore that drops the cached token when the endpoint call fails
obtainAndStore_ClearsOnFailure(tm, t, provider) ==
    IF ~provider.ok
    THEN [tm |-> clearToken(tm), ret |-> Undefined, error |-> AuthenticationError,
          calls |-> 1, branch |-> "obtain"]
    ELSE [tm |-> storeToken(tm, obtainClientCredentialsToken(provider), t),
          ret |-> obtainClientCredentialsToken(provider).access_token,
          error |-> NoError, calls |-> 1, branch |-> "obtain"]

\* the part shared by getAccessToken and refreshTokenIfNeeded:
\*   const tokenResponse = await this.obtainToken();
\*   await this.tokenManager.storeToken(tokenResponse);
\*   return tokenResponse.access_token;
obtainAndStore(tm, t, provider) ==
    IF ~provider.ok
    THEN [tm |-> tm, ret |-> Undefined, error |-> AuthenticationError, calls |-> 1,
          branch |-> "obtain"]
    ELSE LET tokenResponse == obtainClientCredentialsToken(provider)
         IN [tm |-> storeToken(tm, tokenResponse, t),
             ret |-> tokenResponse.access_token, error |-> NoError, calls |-> 1,
             branch |-> "obtain"]

\* OAuth2Manager.getAccessToken
getAccessToken(tm, t, provider) ==
    LET existing == TokenManager_getAccessToken(tm, t)
    IN IF existing.value # Null
       THEN [tm |-> existing.tm, ret |-> existing.value, error |-> NoError, calls |-> 0,
             branch |-> "existing"]
       ELSE obtainAndStore(existing.tm, t, provider)

\* refreshTokenIfNeeded returning the token it read before refreshing
refreshTokenIfNeeded_ReturnsCached(tm, t, provider) ==
    LET tokenInfo == getTokenInfo(tm, t)
        token == TokenManager_getAccessToken(tokenInfo.tm, t)
    IN IF ~tokenInfo.hasToken \/ ~tokenInfo.isValid
       THEN getAccessToken(tokenInfo.tm, t, provider)
       ELSE IF tokenInfo.needsRefresh
       THEN [obtainAndStore(tokenInfo.tm, t, provider) EXCEPT
                !.branch = "refresh", !.ret = token.value]
       ELSE IF token.value = Null
       THEN [tm |-> token.tm, ret |-> Undefined,
             error |-> AuthenticationError, calls |-> 0, branch |-> "existing"]
       ELSE [tm |-> token.tm, ret |-> token.value,
             error |-> NoError, calls |-> 0, branch |-> "existing"]

\* OAuth2Manager.refreshTokenIfNeeded
refreshTokenIfNeeded(tm, t, provider) ==
    LET tokenInfo == getTokenInfo(tm, t)
    IN IF ~tokenInfo.hasToken \/ ~tokenInfo.isValid
       THEN getAccessToken(tokenInfo.tm, t, provider)
       ELSE IF tokenInfo.needsRefresh
       THEN [obtainAndStore(tokenInfo.tm, t, provider) EXCEPT !.branch = "refresh"]
       ELSE LET token == TokenManager_getAccessToken(tokenInfo.tm, t)
            IN IF token.value = Null
               THEN [tm |-> token.tm, ret |-> Undefined,
                     error |-> AuthenticationError, calls |-> 0, branch |-> "existing"]
               ELSE [tm |-> token.tm, ret |-> token.value,
                     error |-> NoError, calls |-> 0, branch |-> "existing"]

\* OAuth2Manager.revokeToken
revokeToken(tm) == clearToken(tm)

-----------------------------------------------------------------------------
(* client/XiboClient.ts, client/HttpClient.ts *)

\* XiboClient constructor: the HttpClientConfig built from the XiboConfig
HttpClientConfig(xc) ==
    [maxRetries |-> OrNum(xc.maxRetries, 3),
     collectionInterval |-> OrNum(xc.collectionInterval, 60000)]

\* HttpClient.request: the RetryOptions handed to retryWithBackoff, merged
\* with the defaults as retryWithBackoff does
requestRetryConfig(httpConfig, override) ==
    [DEFAULT_RETRY_OPTIONS EXCEPT
        !.maxAttempts = Coalesce(override, Coalesce(httpConfig.maxRetries, 3))]

\* retryDecision without the check for the last attempt
retryDecision_NoLastAttemptCheck(error, attemptNo, cfg) ==
    IF ~isRetryableError(error) THEN "throw" ELSE "sleep"

\* retryWithBackoff, catch block: what follows a failed attempt
retryDecision(error, attemptNo, cfg) ==
    IF ~isRetryableError(error) THEN "throw"
    ELSE IF attemptNo = cfg.maxAttempts THEN "break"
    ELSE "sleep"

\* retryWithBackoff, catch block: the delay handed to sleep()
retryDelay(error, attemptNo, cfg, random) ==
    IF error.name = "RateLimitError" THEN getRetryDelay(error)
    ELSE calculateDelay(attemptNo, cfg, random)

\* thrownAfterLoop throwing an error of its own instead of lastError
thrownAfterLoop_Synthetic(lastErr) == XiboError(<<"MAX_RETRIES_EXCEEDED">>, UndefinedNum)

\* retryWithBackoff, after the loop: throw lastError
thrownAfterLoop(lastErr) == lastErr

\* request interceptor, catch: throw new AuthenticationError(...)
interceptorAuthFailure == AuthenticationError

\* the rejection of the request interceptor as the rejected handler of the
\* response interceptor receives it: an error without a response
asAxiosError(err) == [status |-> UndefinedNum, headers |-> {}, code |-> err.code[1]]

\* Authorization header without the token
bearerHeader_NoToken(token) == <<"Bearer", Undefined>>

\* request interceptor: config.headers['Authorization'] = `Bearer ${token}`
bearerHeader(token) == <<"Bearer", token>>

-----------------------------------------------------------------------------
(* The environment *)

TickMs == 5 * 60 * 1000

\* what the token endpoint may answer
ProviderAnswers ==
    { [ok |-> TRUE, access_token |-> a[1], token_type |-> Undefined, expires_in |-> a[2]] :
        a \in { <<"t1", 900>>, <<"t2", 900>>, <<"t1", 600>>, <<"t1", 601>>,
                <<"t2", UndefinedNum>>, <<Undefined, 900>> } }
    \cup { [ok |-> FALSE, access_token |-> Undefined, token_type |-> Undefined,
            expires_in |-> UndefinedNum] }

NoProviderCall ==
    [ok |-> FALSE, access_token |-> Undefined, token_type |-> Undefined,
     expires_in |-> UndefinedNum]

\* header sets a 429 response may carry
RateLimitHeaders ==
    { {},
      { <<"Retry-After", <<"0">>>> },
      { <<"retry-after", <<"2">>>> },
      { <<"Retry-After", <<"W", "e", "d">>>> },
      { <<"X-RateLimit-Remaining", <<"0">>>>, <<"X-RateLimit-Reset", <<"9">>>> },
      { <<"Retry-After", <<"1", "0">>>>, <<"x-ratelimit-remaining", <<"3">>>> } }

\* what the transport (axios) may report for one attempt
HttpOutcomes ==
    { [status |-> st, headers |-> {}, code |-> ""] :
        st \in {200, 400, 401, 403, 404, 408, 422, 500, 503} }
    \cup { [status |-> 429, headers |-> h, code |-> ""] : h \in RateLimitHeaders }

NetworkOutcomes ==
    { [status |-> UndefinedNum, headers |-> {}, code |-> c] : c \in NetworkCodes }

CanceledOutcome == [status |-> UndefinedNum, headers |-> {}, code |-> "ERR_CANCELED"]

NoOutcome == [status |-> UndefinedNum, headers |-> {}, code |-> "none"]

IsSuccess(o) == o.status # UndefinedNum /\ o.status >= 200 /\ o.status < 300

\* XiboConfig values given to the constructor
XiboConfigs ==
    [maxRetries : {UndefinedNum, 0, 2}, collectionInterval : {UndefinedNum, 5000}]

\* context.retryAttempts values a caller passes
RetryOverrides == {UndefinedNum} \cup ((0 - 1)..MaxRetryOverride)

\* what a TokenStorage may hold when the client is constructed
InitialStorage ==
    { UndefinedStr,
      <<"{", "corrupt">>,
      JSONstringify([access_token |-> "t0", token_type |-> "Bearer", expires_in |-> 900,
                     obtained_at |-> 0, expires_at |-> 900000]),
      JSONstringify([access_token |-> "t0", token_type |-> "Bearer", expires_in |-> 300,
                     obtained_at |-> 0, expires_at |-> 300000]) }

\* authCall: [op, ret, failed, calls, branch, provider, before, token, rejects]
NoCall == [op |-> "none", ret |-> Undefined, failed |-> FALSE, calls |-> 0,
           branch |-> "none", provider |-> NoProviderCall, before |-> NullToken,
           token |-> NullToken, rejects |-> FALSE]

\* the record of a call op whose result is r, made on the TokenManager tm with
\* the endpoint answering provider
CallRecord(op, r, provider, tm) ==
    [op |-> op, ret |-> r.ret, failed |-> r.error # NoError, calls |-> r.calls,
     branch |-> r.branch,
     provider |-> IF r.calls > 0 THEN provider ELSE NoProviderCall,
     before |-> tm.cachedToken, token |-> NullToken, rejects |-> FALSE]

\* no Authorization header
NoBearer == <<"none">>
Pending == [name |-> "pending"]

tokenManager == [cachedToken |-> cachedToken, storage |-> storage]

\* calculateDelay has not been called on its own
NoBackoff == [attempt |-> 0]
\* no concurrent calls are in progress
NoTasks == <<>>
\* no PaginatedIterator has been constructed
NoIterator == [currentPage |-> 0, hasMorePages |-> FALSE]

\* no call of next() or all() has been made
NoReturn == [op |-> "none", call |-> 0, done |-> FALSE, value |-> <<>>, failed |-> FALSE]

-----------------------------------------------------------------------------
(* Initial state: a constructed XiboClient, no request made *)

Init ==
    /\ xiboConfig \in XiboConfigs
    /\ now = 0
    /\ cachedToken = NullToken
    /\ storage \in InitialStorage
    /\ authCall = NoCall
    /\ pc = "idle"
    /\ config = DEFAULT_RETRY_OPTIONS
    /\ attempt = 1
    /\ attempts = 0
    /\ sleepCount = 0
    /\ delay = 0
    /\ outcome = NoOutcome
    /\ lastError = NoError
    /\ result = Pending
    /\ aborted = FALSE
    /\ bearer = NoBearer
    /\ retryAttempts = UndefinedNum
    /\ backoff = NoBackoff
    /\ tasks = NoTasks
    /\ lastPut = NullToken
    /\ iterator = NoIterator
    /\ fetches = <<>>
    /\ returned = NoReturn

-----------------------------------------------------------------------------
(* Steps *)

\* the clock advances
Tick ==
    /\ now < MaxTicks * TickMs
    /\ now' = now + TickMs
    /\ authCall' = NoCall
    /\ UNCHANGED <<auxVars, xiboConfig, authVars, reqVars>>

\* a direct call of OAuth2Manager.getAccessToken
GetAccessToken(provider) ==
    LET r == getAccessToken(tokenManager, now, provider)
    IN /\ cachedToken' = r.tm.cachedToken
       /\ storage' = r.tm.storage
       /\ authCall' = CallRecord("getAccessToken", r, provider, tokenManager)
       /\ UNCHANGED <<auxVars, xiboConfig, now, reqVars>>

\* a direct call of OAuth2Manager.refreshTokenIfNeeded
RefreshTokenIfNeeded(provider) ==
    LET r == refreshTokenIfNeeded(tokenManager, now, provider)
    IN /\ cachedToken' = r.tm.cachedToken
       /\ storage' = r.tm.storage
       /\ authCall' = CallRecord("refreshTokenIfNeeded", r, provider, tokenManager)
       /\ UNCHANGED <<auxVars, xiboConfig, now, reqVars>>

\* a direct call of OAuth2Manager.revokeToken
RevokeToken ==
    LET tm == revokeToken(tokenManager)
    IN /\ cachedToken' = tm.cachedToken
       /\ storage' = tm.storage
       /\ authCall' = [NoCall EXCEPT !.op = "revokeToken", !.before = cachedToken]
       /\ UNCHANGED <<auxVars, xiboConfig, now, reqVars>>

\* a direct call of TokenManager.getToken; the store rejects the read when
\* rejects is TRUE
GetToken(rejects) ==
    LET g == getTokenReading(tokenManager, now, rejects)
    IN /\ cachedToken' = g.tm.cachedToken
       /\ storage' = g.tm.storage
       /\ authCall' = [NoCall EXCEPT !.op = "getToken", !.before = cachedToken,
                                      !.token = g.token, !.rejects = rejects]
       /\ UNCHANGED <<auxVars, xiboConfig, now, reqVars>>

\* HttpClient.request is called with context.retryAttempts = override:
\* retryWithBackoff starts its loop
StartRequest(override) ==
    /\ pc \in {"idle", "done"}
    /\ retryAttempts' = override
    /\ LET cfg == requestRetryConfig(HttpClientConfig(xiboConfig), override)
       IN /\ config' = cfg
          /\ IF 1 <= cfg.maxAttempts
             THEN pc' = "attempting" /\ result' = Pending
             ELSE pc' = "done" /\ result' = thrownAfterLoop(NoError)
    /\ attempt' = 1
    /\ attempts' = 0
    /\ sleepCount' = 0
    /\ delay' = 0
    /\ outcome' = NoOutcome
    /\ lastError' = NoError
    /\ aborted' = FALSE
    /\ bearer' = NoBearer
    /\ authCall' = NoCall
    /\ UNCHANGED <<auxVars, xiboConfig, now, authVars>>

\* retryWithBackoff, catch block, for the error of the attempt in progress
Catch(error, random) ==
    LET decision == retryDecision(error, attempt, config)
    IN /\ lastError' = error
       /\ IF decision = "throw"
          THEN /\ pc' = "done"
               /\ result' = error
               /\ UNCHANGED <<delay, sleepCount>>
          ELSE IF decision = "break"
          THEN /\ pc' = "done"
               /\ result' = thrownAfterLoop(error)
               /\ UNCHANGED <<delay, sleepCount>>
          ELSE /\ pc' = "sleeping"
               /\ delay' = retryDelay(error, attempt, config, random)
               /\ sleepCount' = sleepCount + 1
               /\ UNCHANGED result

\* fn() is invoked: the request interceptor obtains the bearer token and the
\* request is handed to the transport
AttemptStart(provider) ==
    /\ pc = "attempting"
    /\ attempts' = attempts + 1
    /\ LET r == refreshTokenIfNeeded(tokenManager, now, provider)
       IN /\ cachedToken' = r.tm.cachedToken
          /\ storage' = r.tm.storage
          /\ authCall' = CallRecord("refreshTokenIfNeeded", r, provider, tokenManager)
          /\ IF r.error # NoError
             THEN /\ bearer' = NoBearer
                  /\ Catch(handleResponseError(asAxiosError(interceptorAuthFailure)), 0)
             ELSE /\ bearer' = bearerHeader(r.ret)
                  /\ pc' = "transport"
                  /\ UNCHANGED <<lastError, result, delay, sleepCount>>
    /\ UNCHANGED <<auxVars, xiboConfig, now, config, attempt, outcome, aborted, retryAttempts>>

\* the transport call settles; an aborted signal makes axios reject it
AttemptEnd(o, random) ==
    /\ pc = "transport"
    /\ aborted <=> o = CanceledOutcome
    /\ outcome' = o
    /\ IF IsSuccess(o)
       THEN /\ pc' = "done"
            /\ result' = [name |-> "ApiResponse", status |-> o.status]
            /\ UNCHANGED <<lastError, delay, sleepCount>>
       ELSE Catch(handleResponseError(o), random)
    /\ authCall' = NoCall
    /\ bearer' = NoBearer
    /\ UNCHANGED <<auxVars, xiboConfig, now, authVars, config, attempt, attempts, aborted,
                   retryAttempts>>

\* sleep(delay) resolves: the loop goes to its next iteration
SleepDone ==
    /\ pc = "sleeping"
    /\ attempt' = attempt + 1
    /\ delay' = 0
    /\ outcome' = NoOutcome
    /\ IF attempt + 1 <= config.maxAttempts
       THEN pc' = "attempting" /\ UNCHANGED result
       ELSE pc' = "done" /\ result' = thrownAfterLoop(lastError)
    /\ authCall' = NoCall
    /\ UNCHANGED <<auxVars, xiboConfig, now, authVars, config, attempts, sleepCount, lastError,
                   aborted, bearer, retryAttempts>>

\* the caller aborts context.signal while the request is suspended
Cancel ==
    /\ pc \in {"transport", "sleeping"}
    /\ ~aborted
    /\ aborted' = TRUE
    /\ authCall' = NoCall
    /\ UNCHANGED <<auxVars, xiboConfig, now, authVars, pc, config, attempt, attempts, sleepCount,
                   delay, outcome, lastError, result, bearer, retryAttempts>>

\* an application that makes requests through HttpClient.request
Next ==
    \/ Tick
    \/ \E override \in RetryOverrides : StartRequest(override)
    \/ \E provider \in ProviderAnswers : AttemptStart(provider)
    \/ \E o \in HttpOutcomes \cup NetworkOutcomes \cup {CanceledOutcome} :
          \E random \in 0..(RandomSteps - 1) : AttemptEnd(o, random)
    \/ SleepDone
    \/ Cancel

Spec == Init /\ [][Next]_vars

\* an application that drives the OAuth2Manager directly
NextAuth ==
    \/ Tick
    \/ \E provider \in ProviderAnswers : GetAccessToken(provider)
    \/ \E provider \in ProviderAnswers : RefreshTokenIfNeeded(provider)
    \/ RevokeToken
    \/ \E rejects \in BOOLEAN : GetToken(rejects)

SpecAuth == Init /\ [][NextAuth]_vars

-----------------------------------------------------------------------------
(* calculateDelay called on its own (utils/retry.ts is exported) *)

\* the variables of the client, which the utilities do not touch
clientVars == <<xiboConfig, now, cachedToken, storage, authCall, reqVars>>

\* a constructed client that is not used
ClientAtRest ==
    /\ xiboConfig = [maxRetries |-> UndefinedNum, collectionInterval |-> UndefinedNum]
    /\ now = 0
    /\ cachedToken = NullToken
    /\ storage = UndefinedStr
    /\ authCall = NoCall
    /\ pc = "idle"
    /\ config = DEFAULT_RETRY_OPTIONS
    /\ attempt = 1
    /\ attempts = 0
    /\ sleepCount = 0
    /\ delay = 0
    /\ outcome = NoOutcome
    /\ lastError = NoError
    /\ result = Pending
    /\ aborted = FALSE
    /\ bearer = NoBearer
    /\ retryAttempts = UndefinedNum

\* RetryOptions a caller of calculateDelay may pass
RetryOptionSets ==
    [maxAttempts : {3}, initialDelay : {0 - 1000, 0, 1000},
     maxDelay : {0 - 1, 0, 3000, 30000}, backoffMultiplier : {0, 1, 2, 3},
     jitter : BOOLEAN]

InitDelay ==
    /\ ClientAtRest
    /\ backoff \in { [options |-> o, attempt |-> 0, delay |-> UndefinedNum,
                       previous |-> UndefinedNum] : o \in RetryOptionSets }
    /\ tasks = NoTasks
    /\ lastPut = NullToken
    /\ iterator = NoIterator
    /\ fetches = <<>>
    /\ returned = NoReturn

\* calculateDelay(attempt, options) for the next attempt number
CalculateDelay(random) ==
    /\ backoff.attempt < MaxAttemptNo
    /\ backoff' = [options |-> backoff.options,
                   attempt |-> backoff.attempt + 1,
                   delay |-> calculateDelay(backoff.attempt + 1, backoff.options, random),
                   previous |-> backoff.delay]
    /\ UNCHANGED <<clientVars, tasks, lastPut, iterator, fetches, returned>>

NextDelay == \E random \in 0..(RandomSteps - 1) : CalculateDelay(random)

SpecDelay == InitDelay /\ [][NextDelay]_vars

-----------------------------------------------------------------------------
(* Concurrent calls on one OAuth2Manager and its TokenManager.  An async    *)
(* method runs without interruption from one await to the next; the steps   *)
(* below are those stretches that read or write cachedToken or the store,   *)
(* each taken together with the stretches after it that touch neither.  The *)
(* store is a MemoryTokenStorage: a call of get, set or delete acts on the  *)
(* map when it is made, and the caller resumes in a later step.  The calls  *)
(* overlap within one clock value.                                          *)

Tasks == 1..NumTasks

\* a task: the call it makes (op), where the call stands (pc), which call of
\* TokenManager.getToken it is in (ctx: from getTokenInfo, from
\* OAuth2Manager.getAccessToken, from the last line of refreshTokenIfNeeded,
\* or called directly), what storage.get resolved with (stored), the value
\* returned (ret), the token returned or stored (token), whether the call
\* threw (failed), and whether revokeToken ran while the task was waiting
\* for the token endpoint (revoked)
IdleTask ==
    [op |-> "none", pc |-> "idle", ctx |-> "none", stored |-> NullStr,
     ret |-> Undefined, token |-> NullToken, failed |-> FALSE, revoked |-> FALSE]

TaskOps ==
    {"refreshTokenIfNeeded", "getAccessToken", "revokeToken",
     "getToken", "storeToken", "clearToken"}

\* the call of TokenManager.getToken an operation starts with
FirstContext(op) ==
    CASE op = "refreshTokenIfNeeded" -> "info"
      [] op = "getAccessToken" -> "access"
      [] OTHER -> "direct"

\* the access token the token endpoint issues to task p
TaskTokens == <<"t1", "t2", "t3", "t4">>

\* what the token endpoint answers to task p
TaskAnswers(p) ==
    { [ok |-> TRUE, access_token |-> TaskTokens[p],
       token_type |-> Undefined, expires_in |-> 900],
      [ok |-> FALSE, access_token |-> Undefined, token_type |-> Undefined,
       expires_in |-> UndefinedNum] }

\* the TokenResponse task p hands to storeToken when it calls it directly
TaskResponse(p) ==
    [access_token |-> TaskTokens[p], token_type |-> "Bearer", expires_in |-> 900]

\* a token obtained at construction time with the given lifetime
PersistedToken(lifetime) ==
    [name |-> "CachedToken", access_token |-> "t0", token_type |-> "Bearer",
     expires_in |-> lifetime, obtained_at |-> 0, expires_at |-> lifetime * 1000]

\* the cache when the calls start: empty, a corrupt entry, or a token that is
\* Expired, in NeedsRefresh or Valid, in the store only or also in memory
InitialCaches ==
    { [cachedToken |-> NullToken, storage |-> UndefinedStr],
      [cachedToken |-> NullToken, storage |-> <<"{", "corrupt">>] }
    \cup { [cachedToken |-> NullToken, storage |-> JSONstringify(PersistedToken(l))] :
            l \in {300, 600, 900} }
    \cup { [cachedToken |-> PersistedToken(l), storage |-> JSONstringify(PersistedToken(l))] :
            l \in {300, 600, 900} }

InitTasks ==
    /\ xiboConfig = [maxRetries |-> UndefinedNum, collectionInterval |-> UndefinedNum]
    /\ now = 0
    /\ \E c \in InitialCaches : cachedToken = c.cachedToken /\ storage = c.storage
    /\ authCall = NoCall
    /\ pc = "idle"
    /\ config = DEFAULT_RETRY_OPTIONS
    /\ attempt = 1
    /\ attempts = 0
    /\ sleepCount = 0
    /\ delay = 0
    /\ outcome = NoOutcome
    /\ lastError = NoError
    /\ result = Pending
    /\ aborted = FALSE
    /\ bearer = NoBearer
    /\ retryAttempts = UndefinedNum
    /\ backoff = NoBackoff
    /\ tasks = [p \in Tasks |-> IdleTask]
    /\ lastPut = NullToken
    /\ iterator = NoIterator
    /\ fetches = <<>>
    /\ returned = NoReturn

\* the variables the concurrent calls leave alone
restVars == <<xiboConfig, now, authCall, reqVars, backoff, iterator, fetches, returned>>

\* task p ends, returning ret and token or throwing
Finish(task, ret, token, failed) ==
    [task EXCEPT !.pc = "done", !.ret = ret, !.token = token, !.failed = failed]

\* what task does once its call of TokenManager.getToken has returned tok
AfterGetToken(task, tok) ==
    CASE task.ctx = "direct" -> Finish(task, Undefined, tok, FALSE)
      [] task.ctx = "info" ->
            IF tok = NullToken \/ ~isTokenValid(tok, now)
            THEN [task EXCEPT !.ctx = "access", !.pc = "getToken"]
            ELSE IF needsRefresh(tok, now)
            THEN [task EXCEPT !.pc = "awaitProvider"]
            ELSE [task EXCEPT !.ctx = "final", !.pc = "getToken"]
      [] task.ctx = "access" ->
            IF tok # NullToken /\ TruthyAtom(tok.access_token)
            THEN Finish(task, tok.access_token, tok, FALSE)
            ELSE [task EXCEPT !.pc = "awaitProvider"]
      [] task.ctx = "final" ->
            IF tok # NullToken /\ TruthyAtom(tok.access_token)
            THEN Finish(task, tok.access_token, tok, FALSE)
            ELSE Finish(task, Undefined, NullToken, TRUE)

\* task p calls op
Call(p, op) ==
    /\ tasks[p].pc = "idle"
    /\ tasks' = [tasks EXCEPT ![p] =
                    [IdleTask EXCEPT !.op = op, !.ctx = FirstContext(op),
                                     !.pc = IF op \in {"revokeToken", "clearToken"}
                                            THEN "clearToken"
                                            ELSE IF op = "storeToken" THEN "storeToken"
                                            ELSE "getToken"]]
    /\ UNCHANGED <<cachedToken, storage, lastPut, restVars>>

\* TokenManager.clearToken (called directly or by revokeToken)
ClearToken(p) ==
    /\ tasks[p].pc = "clearToken"
    /\ LET tm == clearToken(tokenManager)
       IN cachedToken' = tm.cachedToken /\ storage' = tm.storage
    /\ tasks' = [q \in Tasks |->
                    IF q = p THEN Finish(tasks[p], Undefined, NullToken, FALSE)
                    ELSE IF tasks[q].pc = "awaitProvider" /\ tasks[p].op = "revokeToken"
                    THEN [tasks[q] EXCEPT !.revoked = TRUE]
                    ELSE tasks[q]]
    /\ UNCHANGED <<lastPut, restVars>>

\* TokenManager.storeToken called directly
StoreToken(p) ==
    /\ tasks[p].pc = "storeToken"
    /\ LET tm == storeToken(tokenManager, TaskResponse(p), now)
       IN /\ cachedToken' = tm.cachedToken
          /\ storage' = tm.storage
          /\ lastPut' = tm.cachedToken
          /\ tasks' = [tasks EXCEPT ![p] = Finish(tasks[p], Undefined, tm.cachedToken, FALSE)]
    /\ UNCHANGED restVars

\* TokenManager.getToken up to await this.storage.get(...)
GetTokenBegin(p) ==
    /\ tasks[p].pc = "getToken"
    /\ IF cachedToken # NullToken /\ isTokenValid(cachedToken, now)
       THEN tasks' = [tasks EXCEPT ![p] = AfterGetToken(tasks[p], cachedToken)]
       ELSE tasks' = [tasks EXCEPT ![p] =
                        [tasks[p] EXCEPT !.pc = "loaded", !.stored = storageGet(storage)]]
    /\ UNCHANGED <<cachedToken, storage, lastPut, restVars>>

\* TokenManager.getToken from where storage.get has resolved
GetTokenLoaded(p) ==
    /\ tasks[p].pc = "loaded"
    /\ LET g == getTokenLoaded(tokenManager, now, tasks[p].stored)
       IN /\ cachedToken' = g.tm.cachedToken
          /\ storage' = g.tm.storage
          /\ tasks' = [tasks EXCEPT ![p] =
                          AfterGetToken([tasks[p] EXCEPT !.stored = NullStr], g.token)]
    /\ UNCHANGED <<lastPut, restVars>>

\* the token endpoint answers task p: obtainToken returns or throws, and the
\* caller stores the token and returns its access_token
ProviderAnswer(p, provider) ==
    /\ tasks[p].pc = "awaitProvider"
    /\ IF ~provider.ok
       THEN /\ tasks' = [tasks EXCEPT ![p] = Finish(tasks[p], Undefined, NullToken, TRUE)]
            /\ UNCHANGED <<cachedToken, storage, lastPut>>
       ELSE LET tokenResponse == obtainClientCredentialsToken(provider)
                tm == storeToken(tokenManager, tokenResponse, now)
            IN /\ cachedToken' = tm.cachedToken
               /\ storage' = tm.storage
               /\ lastPut' = tm.cachedToken
               /\ tasks' = [tasks EXCEPT ![p] =
                               Finish(tasks[p], tokenResponse.access_token,
                                      tm.cachedToken, FALSE)]
    /\ UNCHANGED restVars

\* an application that makes NumTasks calls without awaiting one before the next
NextTasks ==
    \/ \E p \in Tasks : \E op \in TaskOps : Call(p, op)
    \/ \E p \in Tasks : ClearToken(p)
    \/ \E p \in Tasks : StoreToken(p)
    \/ \E p \in Tasks : GetTokenBegin(p)
    \/ \E p \in Tasks : GetTokenLoaded(p)
    \/ \E p \in Tasks : \E provider \in TaskAnswers(p) : ProviderAnswer(p, provider)

SpecTasks == InitTasks /\ [][NextTasks]_vars

\* ---------------------------------------------------------------------------
\* utils/pagination.ts: PaginatedIterator driven by one caller that awaits
\* each call before making the next
\* ---------------------------------------------------------------------------

\* calls of next() and all() made on one iterator
MaxCalls == 4

\* fetchPage calls made on one iterator
MaxFetches == 5

\* what fetchPage(page) resolves with (ok) or that it rejects (~ok)
PageResponses ==
    { [ok |-> TRUE, hasNext |-> h, data |-> d] : h \in BOOLEAN, d \in {<<>>, <<"item">>} }
        \cup { [ok |-> FALSE, hasNext |-> FALSE, data |-> <<>>] }

\* next() that increments currentPage before awaiting fetchPage
next_AdvancesOnFailure(it, response) ==
    IF ~it.hasMorePages
    THEN [it |-> it, fetched |-> <<>>,
          ret |-> [value |-> <<>>, done |-> TRUE, failed |-> FALSE]]
    ELSE IF ~response.ok
    THEN [it |-> [it EXCEPT !.currentPage = it.currentPage + 1],
          fetched |-> << [page |-> it.currentPage, ok |-> FALSE, hasNext |-> FALSE] >>,
          ret |-> [value |-> <<>>, done |-> FALSE, failed |-> TRUE]]
    ELSE [it |-> [currentPage |-> it.currentPage + 1, hasMorePages |-> response.hasNext],
          fetched |-> << [page |-> it.currentPage, ok |-> TRUE, hasNext |-> response.hasNext] >>,
          ret |-> [value |-> response.data, done |-> FALSE, failed |-> FALSE]]

\* PaginatedIterator.next with fetchPage answering `response`: the iterator
\* afterwards, the fetchPage call made, and what next() returns or that it throws
next(it, response) ==
    IF ~it.hasMorePages
    THEN [it |-> it, fetched |-> <<>>,
          ret |-> [value |-> <<>>, done |-> TRUE, failed |-> FALSE]]
    ELSE IF ~response.ok
    THEN [it |-> it,
          fetched |-> << [page |-> it.currentPage, ok |-> FALSE, hasNext |-> FALSE] >>,
          ret |-> [value |-> <<>>, done |-> FALSE, failed |-> TRUE]]
    ELSE [it |-> [currentPage |-> it.currentPage + 1, hasMorePages |-> response.hasNext],
          fetched |-> << [page |-> it.currentPage, ok |-> TRUE, hasNext |-> response.hasNext] >>,
          ret |-> [value |-> response.data, done |-> FALSE, failed |-> FALSE]]

\* PaginatedIterator.all over [Symbol.asyncIterator]: calls next() while
\* hasMorePages, collecting the pages; a rejection of fetchPage ends it
RECURSIVE all(_, _)
all(it, responses) ==
    IF ~it.hasMorePages \/ responses = <<>>
    THEN [it |-> it, fetched |-> <<>>, value |-> <<>>, failed |-> FALSE]
    ELSE LET n == next(it, Head(responses))
         IN IF n.ret.failed
            THEN [it |-> n.it, fetched |-> n.fetched, value |-> <<>>, failed |-> TRUE]
            ELSE IF n.ret.done
            THEN [it |-> n.it, fetched |-> n.fetched, value |-> <<>>, failed |-> FALSE]
            ELSE LET rest == all(n.it, Tail(responses))
                 IN [it |-> rest.it,
                     fetched |-> n.fetched \o rest.fetched,
                     value |-> IF rest.failed THEN <<>> ELSE n.ret.value \o rest.value,
                     failed |-> rest.failed]

\* the answers fetchPage gives during one run of all(): pages with hasNext
\* up to one that reports hasNext = false or a rejection
RunResponses(maxLen) ==
    { r \in UNION { [1..n -> PageResponses] : n \in 1..maxLen } :
        /\ \A i \in 1..(Len(r) - 1) : r[i].ok /\ r[i].hasNext
        /\ ~(r[Len(r)].ok /\ r[Len(r)].hasNext) }

InitPages ==
    /\ ClientAtRest
    /\ backoff = NoBackoff
    /\ tasks = NoTasks
    /\ lastPut = NullToken
    /\ iterator = [currentPage |-> 1, hasMorePages |-> TRUE]
    /\ fetches = <<>>
    /\ returned = NoReturn

\* await iterator.next()
NextPage(response) ==
    /\ returned.call < MaxCalls
    /\ Len(fetches) < MaxFetches
    /\ LET n == next(iterator, response)
       IN /\ iterator' = n.it
          /\ fetches' = fetches \o n.fetched
          /\ returned' = [op |-> "next", call |-> returned.call + 1, done |-> n.ret.done,
                          value |-> n.ret.value, failed |-> n.ret.failed]
    /\ UNCHANGED <<clientVars, backoff, tasks, lastPut>>

\* await iterator.all()
AllPages(responses) ==
    /\ returned.call < MaxCalls
    /\ Len(fetches) + Len(responses) <= MaxFetches
    /\ LET a == all(iterator, responses)
       IN /\ iterator' = a.it
          /\ fetches' = fetches \o a.fetched
          /\ returned' = [op |-> "all", call |-> returned.call + 1, done |-> ~a.failed,
                          value |-> a.value, failed |-> a.failed]
    /\ UNCHANGED <<clientVars, backoff, tasks, lastPut>>

NextPages ==
    \/ \E response \in PageResponses : NextPage(response)
    \/ \E responses \in RunResponses(MaxFetches) : AllPages(responses)

SpecPages == InitPages /\ [][NextPages]_vars

-----------------------------------------------------------------------------
(* Properties *)

IsError(r) == r.name \notin {"pending", "ApiResponse"}

\* C1: a request whose resolved maxAttempts is N >= 1 and whose every attempt
\* fails with a retryable error (so that the error it ends with is retryable)
\* has made exactly N attempts and exactly N - 1 sleeps when it fails; while it
\* runs, each sleep lies between two attempts.
C1_ExhaustionCounts ==
    /\ (pc = "done" /\ config.maxAttempts >= 1 /\ IsError(result)
            /\ isRetryableError(result))
        => (attempts = config.maxAttempts /\ sleepCount = config.maxAttempts - 1)
    /\ (pc \in {"attempting", "transport", "sleeping"})
        => (attempts <= config.maxAttempts /\ sleepCount <= attempts
            /\ sleepCount >= attempts - 1)

C1_Witness ==
    /\ pc = "done"
    /\ config.maxAttempts = 3
    /\ result = ServerError(500)
    /\ attempts = 3
    /\ sleepCount = 2

PermanentStatuses == {401, 403, 404, 400, 422}

PermanentKind(status) ==
    CASE status = 401 -> "AuthenticationError"
      [] status = 403 -> "AuthorizationError"
      [] status = 404 -> "NotFoundError"
      [] status \in {400, 422} -> "ValidationError"

\* C2: when the first attempt of a request settles with HTTP 401, 403, 404,
\* 400 or 422, the request ends in that step with the error of that kind,
\* after one attempt and no sleep, whatever maxAttempts is.
C2_PermanentFailsFast ==
    [][(pc = "transport" /\ attempts = 1 /\ pc' # "transport"
            /\ outcome'.status \in PermanentStatuses)
        => (/\ pc' = "done"
            /\ attempts' = 1
            /\ sleepCount' = 0
            /\ IsError(result')
            /\ result'.name = PermanentKind(outcome'.status)
            /\ result' = handleResponseError(outcome'))]_vars

C2_Witness ==
    /\ pc = "done"
    /\ config.maxAttempts = 3
    /\ outcome.status = 404
    /\ result = NotFoundError
    /\ attempts = 1
    /\ sleepCount = 0

\* C3: a request that fails with its attempts exhausted (N attempts made, the
\* last one answered by the transport with a retryable failure) rejects with
\* the classified error of that last attempt: its kind, status and hints.
C3_LastErrorSurfaced ==
    (pc = "done" /\ IsError(result) /\ config.maxAttempts >= 1
        /\ attempts = config.maxAttempts /\ outcome # NoOutcome
        /\ isRetryableError(handleResponseError(outcome)))
    => (/\ result = handleResponseError(outcome)
        /\ result = lastError
        /\ result.status = OrNum(outcome.status, 0))

C3_Witness ==
    /\ pc = "done"
    /\ config.maxAttempts = 3
    /\ attempts = 3
    /\ sleepCount = 2
    /\ outcome.status = 429
    /\ result = RateLimitError(10, 3, UndefinedNum)

RateLimitedSleep == pc = "sleeping" /\ lastError.name = "RateLimitError"

\* C4: whenever the request sleeps after a RateLimited error that carries a
\* server-supplied retry-after value (any number, 0 included), the sleep lasts
\* exactly that many seconds.
C4_RetryAfterVerbatim ==
    (RateLimitedSleep /\ lastError.retryAfter \notin {UndefinedNum, NaN})
    => delay = lastError.retryAfter * 1000

\* the undisturbed exponential backoff delay of an attempt
BackoffBase(attemptNo, options) ==
    Min(options.initialDelay * Pow(options.backoffMultiplier, attemptNo - 1),
        options.maxDelay)

NoHints(error) ==
    /\ error.retryAfter = UndefinedNum
    /\ error.remaining = UndefinedNum
    /\ error.reset = UndefinedNum

C6_ConfiguredCollectionInterval ==
    (RateLimitedSleep /\ lastError.retryAfter = UndefinedNum)
    => delay = HttpClientConfig(xiboConfig).collectionInterval

\* C7: a request whose last attempt failed with a transient network error code
\* has used up its attempts when it ends.
C7_NetworkErrorRetried ==
    (pc = "done" /\ outcome.code \in NetworkCodes) => attempts = config.maxAttempts

\* C8: once the caller's signal has fired, no further attempt of the request
\* is started.
C8_NoAttemptAfterCancel == [][aborted => attempts' <= attempts]_vars

\* the cached token's expiry is more than the refresh buffer (10 minutes) away
ValidState ==
    /\ cachedToken # NullToken
    /\ cachedToken.expires_at > now + 600000

\* the cached token's expiry is within 10 minutes but more than 5 minutes away
NeedsRefreshState ==
    /\ cachedToken # NullToken
    /\ cachedToken.expires_at <= now + 600000
    /\ cachedToken.expires_at > now + 300000

\* C9: a call of getAccessToken or refreshTokenIfNeeded made while the cached
\* token is Valid returns that token's access token, makes no token endpoint
\* call and leaves the cached token and the stored entry as they were.
C9_ValidTokenReused ==
    [][(ValidState /\ authCall'.op \in {"getAccessToken", "refreshTokenIfNeeded"})
        => (/\ ~authCall'.failed
            /\ authCall'.ret = cachedToken.access_token
            /\ authCall'.calls = 0
            /\ cachedToken' = cachedToken
            /\ storage' = storage)]_vars

\* the token storeToken builds at time t from the answer of the token endpoint
IssuedAt(answer, t) ==
    LET lifetime == IF answer.expires_in \in {UndefinedNum, NaN, 0} THEN 3600
                    ELSE answer.expires_in
    IN [name |-> "CachedToken", access_token |-> answer.access_token,
        token_type |-> "Bearer", expires_in |-> lifetime,
        obtained_at |-> t, expires_at |-> t + lifetime * 1000]

\* C10: a call of refreshTokenIfNeeded made while the cached token is in
\* NeedsRefresh makes exactly one token endpoint call; when the endpoint
\* answers, the cached token and the stored entry become the token just
\* issued and its access token is what the call returns.
C10_ProactiveRefresh ==
    [][(NeedsRefreshState /\ authCall'.op = "refreshTokenIfNeeded")
        => (/\ authCall'.calls = 1
            /\ authCall'.provider.ok
                => (/\ ~authCall'.failed
                    /\ cachedToken' = IssuedAt(authCall'.provider, now)
                    /\ JSONparse(storage') = IssuedAt(authCall'.provider, now)
                    /\ authCall'.ret = authCall'.provider.access_token))]_vars

C10_Witness ==
    /\ authCall.op = "refreshTokenIfNeeded"
    /\ authCall.branch = "refresh"
    /\ authCall.calls = 1
    /\ authCall.provider.ok
    /\ authCall.ret = "t2"
    /\ cachedToken.access_token = "t2"
    /\ cachedToken.obtained_at = now
    /\ now > 0

\* the cached token's expiry is at most the validity buffer (5 minutes) away
ExpiredState ==
    /\ cachedToken # NullToken
    /\ now >= cachedToken.expires_at - 300000

\* C11: while now >= expires_at - 5 minutes the cached token is not valid, and a
\* call of getAccessToken or refreshTokenIfNeeded made in that state does not
\* return from the cache: it makes exactly one token endpoint call, and when
\* the endpoint answers it returns the access token just issued, which is the
\* token cached from then on.
C11_ExpiredNeverReturned ==
    [][(ExpiredState /\ authCall'.op \in {"getAccessToken", "refreshTokenIfNeeded"})
        => (/\ ~isTokenValid(cachedToken, now)
            /\ authCall'.calls = 1
            /\ authCall'.branch # "existing"
            /\ authCall'.provider.ok
                => (/\ ~authCall'.failed
                    /\ authCall'.ret = authCall'.provider.access_token
                    /\ cachedToken' = IssuedAt(authCall'.provider, now)))]_vars

C11_Witness ==
    /\ authCall.op = "getAccessToken"
    /\ authCall.before # NullToken
    /\ authCall.before.access_token = "t1"
    /\ now = authCall.before.expires_at - 300000
    /\ authCall.calls = 1
    /\ authCall.ret = "t2"
    /\ cachedToken.access_token = "t2"
    /\ cachedToken.obtained_at = now

\* the last step called storeToken, and the clock has not advanced since
StoredNow == authCall.calls = 1 /\ ~authCall.failed

\* C12: right after storeToken, with the clock where it was, a token whose
\* expires_in is above 600 seconds has obtained_at = now,
\* expires_at = obtained_at + expires_in * 1000, is valid and does not need a
\* refresh; the stored entry is that token.
C12_StoredLongLivedIsValid ==
    (StoredNow /\ cachedToken.expires_in > 600)
    => (/\ cachedToken.obtained_at = now
        /\ cachedToken.expires_at = cachedToken.obtained_at + cachedToken.expires_in * 1000
        /\ cachedToken.expires_at > now + 300000
        /\ ~(cachedToken.expires_at <= now + 600000)
        /\ JSONparse(storage) = cachedToken)

C12_Witness ==
    /\ StoredNow
    /\ cachedToken.expires_in = 601
    /\ cachedToken.expires_at = now + 601000
    /\ now > 0

\* C13: every call of revokeToken, from whatever cache state, ends without an
\* error and without a token endpoint call, with the in-memory token and the
\* stored entry absent; a second call made right after it leaves them so.
C13_RevokeIdempotent ==
    [][authCall'.op = "revokeToken"
        => LET after == [cachedToken |-> cachedToken', storage |-> storage']
           IN /\ cachedToken' = NullToken
              /\ storage' = UndefinedStr
              /\ ~authCall'.failed
              /\ authCall'.calls = 0
              /\ revokeToken(after) = after]_vars

C13_Witness ==
    /\ authCall.op = "revokeToken"
    /\ authCall.before # NullToken
    /\ authCall.before.access_token = "t1"
    /\ cachedToken = NullToken
    /\ storage = UndefinedStr

\* C14: the attempt bound of a request is context.retryAttempts when the
\* caller gave one, else the maxRetries of the client configuration when it
\* was set, else 3.
C14_AttemptBoundResolution ==
    pc # "idle"
    => config.maxAttempts =
          (IF retryAttempts # UndefinedNum THEN retryAttempts
           ELSE IF xiboConfig.maxRetries # UndefinedNum THEN xiboConfig.maxRetries
           ELSE 3)

\* C15: when refreshTokenIfNeeded fails before an attempt, the request has
\* ended: nothing was handed to the transport for that attempt, no sleep
\* follows, and the request rejects with an AuthenticationError.
C15_AuthFailureSurfaced ==
    (authCall.op = "refreshTokenIfNeeded" /\ authCall.failed /\ pc # "idle")
    => (/\ pc = "done"
        /\ bearer = NoBearer
        /\ outcome = NoOutcome
        /\ result = lastError
        /\ result.name = "AuthenticationError")

\* the attempt in progress has failed at the transport
AttemptFailed == outcome # NoOutcome /\ ~IsSuccess(outcome)

\* the error kind the classification table gives to a failed attempt
ClassifiedKind(o) ==
    CASE o.status = 401 -> "AuthenticationError"
      [] o.status = 403 -> "AuthorizationError"
      [] o.status = 404 -> "NotFoundError"
      [] o.status \in {400, 422} -> "ValidationError"
      [] o.status = 429 -> "RateLimitError"
      [] o.status # UndefinedNum /\ o.status >= 500 -> "ServerError"
      [] o.status = UndefinedNum /\ o.code \in NetworkCodes -> "NetworkError"
      [] OTHER -> "XiboError"

\* C16: the error a failed attempt is classified to has the kind the table
\* gives for the attempt's status and code; a Server error carries the status,
\* a Network error the code, an Unclassified error the status.
C16_ClassificationTable ==
    AttemptFailed
    => (/\ lastError = handleResponseError(outcome)
        /\ lastError.name = ClassifiedKind(outcome)
        /\ lastError.name = "ServerError" => lastError.status = outcome.status
        /\ lastError.name = "NetworkError" => lastError.code = <<outcome.code>>
        /\ lastError.name = "XiboError" => lastError.status = OrNum(outcome.status, 0))

\* the token endpoint call failed or its answer has no access_token
BadAnswer(provider) == ~provider.ok \/ ~TruthyAtom(provider.access_token)

\* C17: a call of getAccessToken or refreshTokenIfNeeded whose token endpoint
\* call fails or is answered without an access_token fails (with the
\* AuthenticationError of obtainToken), returns nothing and stores nothing:
\* the stored entry is as before or cleared, the in-memory token is as
\* before, cleared, or the stored token loaded.
C17_NoTokenFromBadAnswer ==
    [][(authCall'.calls = 1 /\ BadAnswer(authCall'.provider))
        => (/\ authCall'.failed
            /\ authCall'.ret = Undefined
            /\ cachedToken' \in {NullToken, cachedToken, JSONparse(storage)}
            /\ storage' \in {UndefinedStr, storage})]_vars

\* C18: once an attempt has been answered with HTTP 401 the cached token is
\* gone from memory and from the store.
C18_RejectedTokenInvalidated ==
    outcome.status = 401 => (cachedToken = NullToken /\ storage = UndefinedStr)

\* C19: a request is handed to the transport only by a step that counts an
\* attempt and calls refreshTokenIfNeeded; the Authorization header of the
\* attempt is Bearer followed by the value that call returned, which is the
\* access token cached at that moment (the new one when the call refreshed).
C19_BearerIsRefreshedToken ==
    [][pc' = "transport" /\ pc # "transport"
        => (/\ pc = "attempting"
            /\ attempts' = attempts + 1
            /\ authCall'.op = "refreshTokenIfNeeded"
            /\ ~authCall'.failed
            /\ bearer' = <<"Bearer", authCall'.ret>>
            /\ bearer' = <<"Bearer", cachedToken'.access_token>>
            /\ authCall'.calls = 1
                => bearer' = <<"Bearer", authCall'.provider.access_token>>)]_vars

C19_Witness ==
    /\ pc = "transport"
    /\ attempts = 2
    /\ authCall.op = "refreshTokenIfNeeded"
    /\ authCall.branch = "refresh"
    /\ authCall.before # NullToken
    /\ authCall.before.access_token = "t1"
    /\ authCall.provider.access_token = "t2"
    /\ bearer = <<"Bearer", "t2">>
    /\ cachedToken.access_token = "t2"

\* whether the kind and status of a failed attempt are to be retried
RetryableKind(o) ==
    CASE ClassifiedKind(o) \in {"RateLimitError", "ServerError", "NetworkError"} -> TRUE
      [] ClassifiedKind(o) = "XiboError" ->
            o.status # UndefinedNum /\ (o.status >= 500 \/ o.status \in {408, 429})
      [] OTHER -> FALSE

\* C20: isRetryableError of the error a failed attempt is classified to is
\* true exactly when the attempt's kind is RateLimited, Server or Network, or
\* Unclassified with status >= 500, 408 or 429.
C20_RetryableExactly ==
    AttemptFailed
    => (/\ lastError = handleResponseError(outcome)
        /\ isRetryableError(lastError) <=> RetryableKind(outcome))

\* calculateDelay has been called with jitter disabled
DelayComputed == backoff.attempt >= 1 /\ ~backoff.options.jitter

\* min(initialDelay * backoffMultiplier^(a-1), maxDelay)
CappedBackoff(options, a) ==
    Min(options.initialDelay * Pow(options.backoffMultiplier, a - 1), options.maxDelay)

\* C21 as stated: with jitter disabled, for all RetryOptions and every attempt
\* number a >= 1, calculateDelay(a) is min(initialDelay * multiplier^(a-1),
\* maxDelay), is not below calculateDelay(a-1), is at most maxDelay and is
\* not negative.
C21_DelayForAllOptions ==
    DelayComputed
    => (/\ backoff.delay = CappedBackoff(backoff.options, backoff.attempt)
        /\ backoff.attempt >= 2 => backoff.delay >= backoff.previous
        /\ backoff.delay <= backoff.options.maxDelay
        /\ backoff.delay >= 0)

\* options of an exponential backoff: no negative delay, no shrinking factor
BackoffOptions(options) ==
    /\ options.initialDelay >= 0
    /\ options.maxDelay >= 0
    /\ options.backoffMultiplier >= 1

\* C21 as amended: with jitter disabled, calculateDelay(a) is
\* max(min(initialDelay * multiplier^(a-1), maxDelay), 0) and never negative
\* for all RetryOptions; for options with initialDelay >= 0, maxDelay >= 0 and
\* backoffMultiplier >= 1 it is min(initialDelay * multiplier^(a-1), maxDelay),
\* is not below calculateDelay(a-1) and is at most maxDelay.
C21_DelayClamped ==
    DelayComputed
    => (/\ backoff.delay = Max(CappedBackoff(backoff.options, backoff.attempt), 0)
        /\ backoff.delay >= 0
        /\ BackoffOptions(backoff.options)
            => (/\ backoff.delay = CappedBackoff(backoff.options, backoff.attempt)
                /\ backoff.attempt >= 2 => backoff.delay >= backoff.previous
                /\ backoff.delay <= backoff.options.maxDelay))

C21_Witness ==
    /\ DelayComputed
    /\ backoff.options.initialDelay = 1000
    /\ backoff.options.backoffMultiplier = 2
    /\ backoff.options.maxDelay = 3000
    /\ backoff.attempt = 3
    /\ backoff.previous = 2000
    /\ backoff.delay = 3000

\* the value a response carries for a header, whatever the case of its name
RawHeader(headers, name) ==
    IF \E h \in headers : ToLowerCase(h[1]) = name
    THEN (CHOOSE h \in headers : ToLowerCase(h[1]) = name)[2]
    ELSE UndefinedStr

AllDigits(s) == s # <<>> /\ \A i \in 1..Len(s) : IsDigit(s[i])

\* the number a string of decimal digits denotes
RECURSIVE DecimalValue(_)
DecimalValue(s) ==
    IF s = <<>> THEN 0
    ELSE DecimalValue(SubSeq(s, 1, Len(s) - 1)) * 10 + DigitValue(s[Len(s)])

\* the hint a response gives under a header: absent without the header, the
\* number the header holds, no number when the header holds none
HeaderHint(headers, name) ==
    LET v == RawHeader(headers, name)
    IN IF v = UndefinedStr THEN UndefinedNum
       ELSE IF AllDigits(v) THEN DecimalValue(v)
       ELSE NaN

\* C22: an attempt answered with HTTP 429 is classified as a RateLimitError
\* whose retryAfter, remaining and reset are what the Retry-After,
\* X-RateLimit-Remaining and X-RateLimit-Reset headers of the response hold;
\* a hint whose header is missing is undefined, not 0, so a 429 without
\* headers has all three hints undefined.
C22_HintsFromHeaders ==
    (AttemptFailed /\ outcome.status = 429)
    => (/\ lastError.name = "RateLimitError"
        /\ lastError.retryAfter = HeaderHint(outcome.headers, "retry-after")
        /\ lastError.remaining = HeaderHint(outcome.headers, "x-ratelimit-remaining")
        /\ lastError.reset = HeaderHint(outcome.headers, "x-ratelimit-reset")
        /\ outcome.headers = {} => NoHints(lastError))

C22_Witness ==
    /\ AttemptFailed
    /\ outcome.status = 429
    /\ RawHeader(outcome.headers, "x-ratelimit-reset") = <<"9">>
    /\ lastError.name = "RateLimitError"
    /\ lastError.retryAfter = UndefinedNum
    /\ lastError.remaining = 0
    /\ lastError.reset = 9

\* the stored entry deserializes to a token that is not Expired
StoredUsable ==
    /\ storage # UndefinedStr
    /\ JSONparse(storage).name = "CachedToken"
    /\ JSONparse(storage).expires_at > now + 300000

ClockValues == { k * TickMs : k \in 0..(MaxTicks + 2) }

\* 0 for Valid, 1 for NeedsRefresh, 2 for Expired, 3 for a token that is not
\* valid and yet does not need a refresh
FreshnessRank(token, t) ==
    IF isTokenValid(token, t) THEN (IF needsRefresh(token, t) THEN 1 ELSE 0)
    ELSE (IF needsRefresh(token, t) THEN 2 ELSE 3)

\* C26: for the cached token and every clock value, the token is Valid,
\* NeedsRefresh or Expired by isTokenValid and needsRefresh, a token that is
\* not valid needs a refresh, and at a later clock value the token is in the
\* same state or further along Valid, NeedsRefresh, Expired; getTokenInfo
\* reports needsRefresh whenever it reports not isValid.
C26_FreshnessStates ==
    /\ cachedToken # NullToken
        => (/\ \A t \in ClockValues :
                /\ FreshnessRank(cachedToken, t) \in {0, 1, 2}
                /\ ~isTokenValid(cachedToken, t) => needsRefresh(cachedToken, t)
            /\ \A t1, t2 \in ClockValues :
                t1 <= t2 => FreshnessRank(cachedToken, t1) <= FreshnessRank(cachedToken, t2)
            /\ ValidState <=> FreshnessRank(cachedToken, now) = 0
            /\ NeedsRefreshState <=> FreshnessRank(cachedToken, now) = 1
            /\ ExpiredState <=> FreshnessRank(cachedToken, now) = 2)
    /\ ~getTokenInfo(tokenManager, now).isValid
        => getTokenInfo(tokenManager, now).needsRefresh

C26_Witness ==
    /\ cachedToken # NullToken
    /\ cachedToken.obtained_at = 0
    /\ FreshnessRank(cachedToken, 0) = 0
    /\ now = 2 * TickMs
    /\ FreshnessRank(cachedToken, TickMs) = 1
    /\ FreshnessRank(cachedToken, now) = 2

\* the last step made a token endpoint call that failed
ProviderFailed(call) == call.calls = 1 /\ ~call.provider.ok

\* C27 as stated: after a call of getAccessToken or refreshTokenIfNeeded whose
\* token endpoint call failed, the in-memory token and the stored entry are
\* what they were before the call.
C27_FailureLeavesCacheUnchanged ==
    [][ProviderFailed(authCall') => (cachedToken' = cachedToken /\ storage' = storage)]_vars

\* C27 as amended: a call whose token endpoint call failed fails and stores
\* nothing new; a token that was cached and not Expired (a NeedsRefresh token
\* before a proactive refresh) is cached afterwards with the stored entry as
\* it was; a stored token that is not Expired is loaded and kept; an Expired
\* token or an entry that cannot be deserialized has been removed from memory
\* and from the store.
C27_FailureKeepsUsableToken ==
    [][ProviderFailed(authCall')
        => (/\ authCall'.failed
            /\ IF cachedToken # NullToken /\ ~ExpiredState
               THEN cachedToken' = cachedToken /\ storage' = storage
               ELSE IF StoredUsable
               THEN cachedToken' = JSONparse(storage) /\ storage' = storage
               ELSE cachedToken' = NullToken /\ storage' = UndefinedStr)]_vars

C27_Witness ==
    /\ ProviderFailed(authCall)
    /\ authCall.op = "refreshTokenIfNeeded"
    /\ authCall.branch = "refresh"
    /\ authCall.failed
    /\ authCall.before # NullToken
    /\ cachedToken = authCall.before
    /\ JSONparse(storage) = cachedToken
    /\ NeedsRefreshState

\* C25: a request that has ended has made at least one attempt and has ended
\* with a response or with an error, whatever attempt bound it ran with.
C25_AtLeastOneAttempt ==
    pc = "done" => (attempts >= 1 /\ result # NoError /\ result # Pending)

\* every concurrent call has completed
AllDone == \A p \in Tasks : tasks[p].pc = "done"

\* task p obtained a token from the token endpoint and returned it
ObtainedOwn(p) ==
    /\ tasks[p].op \in {"refreshTokenIfNeeded", "getAccessToken"}
    /\ ~tasks[p].failed
    /\ tasks[p].token # NullToken
    /\ tasks[p].token.access_token = TaskTokens[p]

\* C24: once concurrent calls of refreshTokenIfNeeded or getAccessToken have
\* all completed, each having obtained a token from the token endpoint, the
\* in-memory token and the stored entry are the token of the last storeToken,
\* and each call has returned the access token it was issued, of a token that
\* has not expired.
C24_LastPutWins ==
    (AllDone /\ \A p \in Tasks : ObtainedOwn(p))
    => (/\ cachedToken = lastPut
        /\ storage = JSONstringify(lastPut)
        /\ \E p \in Tasks : lastPut = tasks[p].token
        /\ \A p \in Tasks :
            /\ tasks[p].ret = TaskTokens[p]
            /\ tasks[p].token.obtained_at = now
            /\ tasks[p].token.expires_at > now)

C24_Witness ==
    /\ AllDone
    /\ \A p \in Tasks : ObtainedOwn(p) /\ tasks[p].op = "refreshTokenIfNeeded"
    /\ tasks[1].ret = "t1"
    /\ tasks[2].ret = "t2"
    /\ lastPut.access_token = "t1"
    /\ cachedToken = lastPut

\* C28: once concurrent calls of storeToken, clearToken and getToken have all
\* completed, the in-memory token and the stored entry are both absent, or
\* the stored entry is the serialized in-memory token.
C28_MemoryAndStoreAgree ==
    (AllDone /\ \A p \in Tasks : tasks[p].op \in {"storeToken", "clearToken", "getToken"})
    => \/ cachedToken = NullToken /\ storage = UndefinedStr
       \/ cachedToken # NullToken /\ storage = JSONstringify(cachedToken)

\* C29: once revokeToken and a call of getAccessToken or refreshTokenIfNeeded
\* that was waiting for the token endpoint when revokeToken ran have both
\* completed, the in-memory token and the stored entry are absent.
C29_RevokeWinsOverRefresh ==
    (AllDone /\ \E p \in Tasks : tasks[p].revoked)
    => (cachedToken = NullToken /\ storage = UndefinedStr)

\* the number of pages fetchPage has delivered among the first n calls
Delivered(n) == Cardinality({ j \in 1..n : fetches[j].ok })

\* a page that reported hasNext = false has been fetched
LastPageFetched == \E i \in 1..Len(fetches) : fetches[i].ok /\ ~fetches[i].hasNext

\* C30: an iterator driven by one caller asks fetchPage for page 1 first and
\* then always for the page after the last one delivered, so the delivered
\* pages are 1, 2, 3, ... each once and a rejected page is asked for again;
\* after a rejection currentPage is still the rejected page; after a page with hasNext = false
\* no call reaches fetchPage, next() returns done with an empty value and
\* all() returns nothing.
C30_SequentialPaging ==
    [][/\ \A i \in 1..Len(fetches') : fetches'[i].page = 1 + Delivered(i - 1)'
       /\ iterator'.currentPage = 1 + Delivered(Len(fetches))'
       /\ returned'.failed => /\ fetches' # fetches
                               /\ ~fetches'[Len(fetches')].ok
                               /\ iterator'.currentPage = fetches'[Len(fetches')].page
       /\ (LastPageFetched /\ returned'.call # returned.call)
            => /\ fetches' = fetches
               /\ iterator' = iterator
               /\ returned'.done /\ ~returned'.failed /\ returned'.value = <<>>]_vars

C30_Witness ==
    /\ Len(fetches) >= 4
    /\ \E i \in 1..(Len(fetches) - 1) :
        ~fetches[i].ok /\ fetches[i + 1].ok /\ fetches[i + 1].page = fetches[i].page
    /\ fetches[Len(fetches)].page = 3
    /\ LastPageFetched
    /\ returned.op = "next" /\ returned.done

====
